---- MODULE Spec2Model ----
(***************************************************************************)
(* Model of get-started/walkthrough.ipynb: the label encoder               *)
(* (unique_labels, label_index, string_to_N_hot), the metadata.jsonl       *)
(* materializer cell, the batch collator vit_data_collator, the image      *)
(* transform XRayTransform and the cells that load the dataset, build the  *)
(* model, pick the checkpoint to resume from, train and evaluate.          *)
(*                                                                         *)
(* A Python str is a sequence of character codes; '|' is code 124.  A      *)
(* float 1.0 / 0.0 of a label vector is written 1 / 0.  A tensor is a      *)
(* record [shape, data]: data of a pixel tensor is an opaque content       *)
(* token, data of a stacked tensor is the sequence of its slices' data.    *)
(***************************************************************************)
EXTENDS Integers, Sequences, FiniteSets, TLC

VARIABLES
    pc,             \* the notebook cell to execute next
    csv,            \* rows of Data_Entry_2017_v2020.csv (the file on disk)
    data,           \* the DataFrame `data`: its rows (Image Index, Finding Labels)
    data_labels,    \* the column data["labels"], NoColumn while it is not assigned
    unique_labels,  \* the global `unique_labels`
    label_index,    \* the global `label_index` (a dict: token -> index)
    metadata_file,  \* contents of images/metadata.jsonl, NoFile while it does not exist
    file_before,    \* history: metadata_file as the materializer cell last found it
    vocab_first,    \* history: unique_labels as the first extraction left it
    runs,           \* history: executions per cell, to_json writes, string_to_N_hot calls
    fault,          \* the exception that ended the run, "none" if none
    arg,            \* argument of the last direct call of string_to_N_hot
    out,            \* what that call did: [status, value]
    memo,           \* history: argument and outcome of the first direct call
    examples,       \* the list handed to vit_data_collator
    batch,          \* what vit_data_collator did with it: [status, value]
    disk,           \* the other files: the label csv, ./results and its checkpoints
    dataset,        \* the DatasetDict `dataset`: its train and validation rows
    num_labels,     \* model.config.num_labels, 0 while there is no model
    last_checkpoint,\* the global `last_checkpoint`: [given, step], given = FALSE for None
    training,       \* history: what trainer.train and trainer.evaluate did
    example_batch,  \* the batch handed to XRayTransform.__call__
    transformed     \* the batch it returned

\* the state of the cells after the materializer
later == <<disk, dataset, num_labels, last_checkpoint, training, example_batch,
           transformed>>

vars == <<pc, csv, data, data_labels, unique_labels, label_index, metadata_file,
          file_before, vocab_first, runs, fault, arg, out, memo, examples, batch,
          later>>

(***************************************************************************)
(* Bounds of the model.                                                    *)
(***************************************************************************)
MaxStrLen == 3
MaxVocab == 3
MaxRows == 2
MaxRuns == 2
MaxBatch == 2

(***************************************************************************)
(* Characters and strings.                                                 *)
(***************************************************************************)
Pipe == 124

\* 'E', 'I', 'N': the initials of Effusion, Infiltration, No Finding
Letters == {69, 73, 78}

Chars == Letters \cup {Pipe}

RECURSIVE StringsUpTo(_, _)
StringsUpTo(alphabet, n) ==
    IF n = 0 THEN {<<>>}
    ELSE LET shorter == StringsUpTo(alphabet, n - 1)
         IN  shorter \cup {Append(s, c) : s \in shorter, c \in alphabet}

\* the label names that occur in a well-formed Finding Labels cell:
\* "E", "I", "N" and the two-letter name "EI"
TokenNames == {<<c>> : c \in Letters} \cup {<<69, 73>>}

\* every token a vocabulary is drawn from; "" is what split leaves around a
\* leading, trailing or doubled '|'
TokenUniverse == TokenNames \cup {<<>>}

Range(s) == {s[i] : i \in DOMAIN s}

(***************************************************************************)
(* str.split("|")                                                          *)
(***************************************************************************)
RECURSIVE SplitFrom(_, _, _, _)
SplitFrom(string, i, cur, acc) ==
    IF i > Len(string) THEN Append(acc, cur)
    ELSE IF string[i] = Pipe
         THEN SplitFrom(string, i + 1, <<>>, Append(acc, cur))
         ELSE SplitFrom(string, i + 1, Append(cur, string[i]), acc)

Split(string) == SplitFrom(string, 1, <<>>, <<>>)

(***************************************************************************)
(* np.unique: the sorted distinct elements.  Strings compare by code       *)
(* point, a proper prefix first.                                           *)
(***************************************************************************)
RECURSIVE StrLess(_, _)
StrLess(a, b) ==
    IF a = <<>> THEN b # <<>>
    ELSE IF b = <<>> THEN FALSE
    ELSE IF a[1] # b[1] THEN a[1] < b[1]
    ELSE StrLess(Tail(a), Tail(b))

RECURSIVE InsertSorted(_, _)
InsertSorted(sorted, x) ==
    IF sorted = <<>> THEN <<x>>
    ELSE IF StrLess(x, sorted[1]) THEN <<x>> \o sorted
    ELSE <<sorted[1]>> \o InsertSorted(Tail(sorted), x)

RECURSIVE SortTokens(_)
SortTokens(ar) ==
    IF ar = <<>> THEN <<>> ELSE InsertSorted(SortTokens(Tail(ar)), ar[1])

\* keeps ar[1] and every ar[i] that differs from ar[i-1]
RECURSIVE DropRepeats(_)
DropRepeats(ar) ==
    IF Len(ar) <= 1 THEN ar
    ELSE IF ar[1] = ar[2] THEN DropRepeats(Tail(ar))
    ELSE <<ar[1]>> \o DropRepeats(Tail(ar))

\* np.unique without its sort: only adjacent repeats are dropped
np_unique_unsorted(ar) == DropRepeats(ar)

np_unique(ar) == DropRepeats(SortTokens(ar))

\* data['Finding Labels'].str.split("|").aggregate(np.concatenate)
RECURSIVE ConcatenateSplit(_)
ConcatenateSplit(column) ==
    IF column = <<>> THEN <<>>
    ELSE Split(column[1]) \o ConcatenateSplit(Tail(column))

(***************************************************************************)
(* Input sets.                                                             *)
(***************************************************************************)
\* every raw string, well formed or not
LabelStrings == StringsUpTo(Chars, MaxStrLen)

\* the well-formed Finding Labels cells: label names joined by '|'
Corpus == {s \in LabelStrings : Range(Split(s)) \subseteq TokenNames}

TokenLists == StringsUpTo(TokenUniverse, MaxVocab) \ {<<>>}

\* the vocabularies np.unique can return for token lists of the universe
Vocabularies == {np_unique(q) : q \in TokenLists}

(***************************************************************************)
(* The label encoder.                                                      *)
(***************************************************************************)
NoResult == [status |-> "none", value |-> <<>>]

Raised(exception) == [status |-> exception, value |-> <<>>]

Returned(value) == [status |-> "ok", value |-> value]

\* {v: i for i, v in enumerate(labels)}: a later duplicate overwrites
MakeLabelIndex(labels) ==
    [v \in Range(labels) |->
        CHOOSE i \in 0..(Len(labels) - 1) :
            /\ labels[i + 1] = v
            /\ \A j \in 0..(Len(labels) - 1) : labels[j + 1] = v => j <= i]

\* one buffer allocated outside the function and reused by every call
ZerosReused(n) ==
    IF out.status = "ok" /\ Len(out.value) = n THEN out.value ELSE [i \in 1..n |-> 0]

\* np.zeros((n,), dtype=float)
Zeros(n) == [i \in 1..n |-> 0]

\* the 0-based indexes used as 1-based positions
AssignOnesShifted(label, true_index) ==
    [i \in 1..Len(label) |->
        IF \E k \in 1..Len(true_index) : true_index[k] = i THEN 1 ELSE label[i]]

\* label[true_index[0]] = 1: only the first token is marked
AssignFirstOnly(label, true_index) ==
    [i \in 1..Len(label) |-> IF true_index[1] = i - 1 THEN 1 ELSE label[i]]

\* label[i] += 1 for every occurrence of i in the index list
AssignOnesCounting(label, true_index) ==
    [i \in 1..Len(label) |->
        label[i] + Cardinality({k \in 1..Len(true_index) : true_index[k] = i - 1})]

\* label[true_index] = 1 on a 0-based index list
AssignOnes(label, true_index) ==
    [i \in 1..Len(label) |->
        IF \E k \in 1..Len(true_index) : true_index[k] = i - 1 THEN 1 ELSE label[i]]

\* label_index.get(cl): a token missing from the vocabulary is skipped
N_hotLenient(string, index, labels) ==
    LET cls == Split(string)
        known == {k \in 1..Len(cls) : cls[k] \in DOMAIN index}
    IN  Returned([i \in 1..Len(labels) |->
                    IF \E k \in known : index[cls[k]] = i - 1 THEN 1 ELSE 0])

\* the body of string_to_N_hot with the globals it reads as arguments
N_hot(string, index, labels) ==
    LET cls == Split(string)
    IN  IF \E k \in 1..Len(cls) : cls[k] \notin DOMAIN index
        THEN Raised("KeyError")
        ELSE LET true_index == [k \in 1..Len(cls) |-> index[cls[k]]]
                 label == Zeros(Len(labels))
             IN  IF \E k \in 1..Len(cls) : true_index[k] >= Len(label)
                 THEN Raised("IndexError")
                 ELSE Returned(AssignOnes(label, true_index))

string_to_N_hot(string) == N_hot(string, label_index, unique_labels)

\* unique_labels[np.argwhere(label).flatten()]
Decode(label) ==
    LET Pick[i \in 0..Len(label)] ==
            IF i = 0 THEN <<>>
            ELSE IF label[i] # 0 THEN Append(Pick[i - 1], unique_labels[i])
                 ELSE Pick[i - 1]
    IN  Pick[Len(label)]

(***************************************************************************)
(* The notebook's cells.                                                   *)
(***************************************************************************)
NoColumn == [assigned |-> FALSE, values |-> <<>>]

NoFile == [exists |-> FALSE, lines |-> <<>>]

NoDict == <<>>

FindingLabels(rows) == [i \in 1..Len(rows) |-> rows[i].FindingLabels]

\* the vocabulary extended in place instead of rebound
ExtractLabelsExtend(rows) ==
    unique_labels \o np_unique(ConcatenateSplit(FindingLabels(rows)))

\* the vocabulary taken from the first row of the column only
ExtractLabelsHead(rows) == np_unique(ConcatenateSplit(FindingLabels(SubSeq(rows, 1, 1))))

\* np.unique(data['Finding Labels'].str.split("|").aggregate(np.concatenate)).tolist()
ExtractLabels(rows) == np_unique(ConcatenateSplit(FindingLabels(rows)))

Bump(cell) == [runs EXCEPT ![cell] = @ + 1]

\* the cell "data = pd.read_csv(label_file) ... unique_labels = np.unique(...)"
RunExtract ==
    /\ data' = csv
    /\ data_labels' = NoColumn
    /\ unique_labels' = ExtractLabels(csv)
    /\ vocab_first' = IF runs.extract = 0 THEN ExtractLabels(csv) ELSE vocab_first
    /\ runs' = Bump("extract")
    /\ UNCHANGED <<csv, label_index, metadata_file, file_before, fault,
                   arg, out, memo, examples, batch, later>>

\* pd.read_csv(label_file) of a file that is not there
ReadMissing ==
    /\ fault' = "FileNotFoundError"
    /\ pc' = "failed"
    /\ runs' = Bump("extract")
    /\ UNCHANGED <<csv, data, data_labels, unique_labels, label_index, metadata_file,
                   file_before, vocab_first, arg, out, memo, examples, batch, later>>

ExtractCell ==
    /\ pc = "extract"
    /\ IF disk.label_file
       THEN /\ pc' = "encode"
            /\ RunExtract
       ELSE ReadMissing

\* data["Finding Labels"].apply(string_to_N_hot): the outcome per row; the
\* first row that raises ends the apply
ApplyColumn(rows, index, labels) ==
    [i \in 1..Len(rows) |-> N_hot(rows[i].FindingLabels, index, labels)]

FirstRaise(results) ==
    IF \E i \in 1..Len(results) : results[i].status # "ok"
    THEN CHOOSE i \in 1..Len(results) :
            /\ results[i].status # "ok"
            /\ \A j \in 1..(i - 1) : results[j].status = "ok"
    ELSE 0

\* the cell "label_index = {...}; def string_to_N_hot ...; data["labels"] = ..."
EncodeCell ==
    /\ pc = "encode"
    /\ LET index == MakeLabelIndex(unique_labels)
           results == ApplyColumn(data, index, unique_labels)
           bad == FirstRaise(results)
       IN  /\ label_index' = index
           /\ IF bad # 0
              THEN /\ fault' = results[bad].status
                   /\ pc' = "failed"
                   /\ runs' = [runs EXCEPT !.encode = @ + 1, !.calls = @ + bad]
                   /\ UNCHANGED data_labels
              ELSE /\ data_labels' = [assigned |-> TRUE,
                                      values |-> [i \in 1..Len(data) |-> results[i].value]]
                   /\ pc' = "materialize"
                   /\ runs' = [runs EXCEPT !.encode = @ + 1, !.calls = @ + Len(data)]
                   /\ UNCHANGED fault
    /\ UNCHANGED <<csv, data, unique_labels, metadata_file, file_before, vocab_first,
                   arg, out, memo, examples, batch, later>>

\* the rows written last to first
to_json_reversed(rows, labels) ==
    [i \in 1..Len(rows) |->
        [file_name |-> rows[Len(rows) + 1 - i].ImageIndex,
         labels |-> labels[Len(rows) + 1 - i]]]

\* metadata_file.is_file() answering False for a file that exists
is_file_never(file) == FALSE

\* metadata_file.is_file()
is_file(file) == file.exists

\* data[["Image Index", "labels"]].rename(columns={"Image Index": "file_name"})
\*     .to_json(..., orient='records', lines=True)
to_json(rows, labels) ==
    [i \in 1..Len(rows) |-> [file_name |-> rows[i].ImageIndex, labels |-> labels[i]]]

\* the cell "if not metadata_file.is_file(): ... .to_json(...)"
RunMaterialize(next) ==
    /\ file_before' = metadata_file
    /\ IF is_file(metadata_file)
       THEN /\ pc' = next
            /\ runs' = Bump("materialize")
            /\ UNCHANGED <<metadata_file, fault>>
       ELSE IF ~data_labels.assigned
       THEN /\ fault' = "KeyError"
            /\ pc' = "failed"
            /\ runs' = Bump("materialize")
            /\ UNCHANGED metadata_file
       ELSE /\ metadata_file' = [exists |-> TRUE,
                                 lines |-> to_json(data, data_labels.values)]
            /\ pc' = next
            /\ runs' = [runs EXCEPT !.materialize = @ + 1, !.writes = @ + 1]
            /\ UNCHANGED fault
    /\ UNCHANGED <<csv, data, data_labels, unique_labels, label_index, vocab_first,
                   arg, out, memo, examples, batch, later>>

MaterializeCell ==
    /\ pc = "materialize"
    /\ RunMaterialize("load")

\* a cell executed again by hand after the run has passed it
RerunExtract ==
    /\ pc \in {"encode", "materialize", "load"}
    /\ runs.extract < MaxRuns
    /\ UNCHANGED pc
    /\ RunExtract

RerunMaterialize ==
    /\ pc = "load"
    /\ runs.materialize < MaxRuns
    /\ RunMaterialize("load")

(***************************************************************************)
(* Direct calls of string_to_N_hot.                                        *)
(***************************************************************************)
NoMemo == [arg |-> <<>>, status |-> "none", value |-> <<>>,
           labels |-> <<>>, index |-> <<>>, between |-> FALSE]

Call(string) ==
    /\ pc = "call"
    /\ arg' = string
    /\ out' = string_to_N_hot(string)
    /\ UNCHANGED <<pc, csv, data, data_labels, unique_labels, label_index,
                   metadata_file, file_before, vocab_first, runs, fault,
                   examples, batch, later>>

CallAny ==
    \E string \in LabelStrings :
        /\ Call(string)
        /\ UNCHANGED memo

CallRemembered ==
    \E string \in Corpus :
        /\ Call(string)
        /\ memo' = IF memo.status = "none"
                   THEN [arg |-> string, status |-> out'.status, value |-> out'.value,
                         labels |-> unique_labels, index |-> label_index,
                         between |-> FALSE]
                   ELSE [memo EXCEPT !.between = @ \/ string # memo.arg]

(***************************************************************************)
(* The batch collator.                                                     *)
(***************************************************************************)
\* torch.cat(tensors): joined along the first dimension, no new one
torch_cat(tensors) ==
    IF tensors = <<>> THEN Raised("RuntimeError")
    ELSE IF \E i \in 1..Len(tensors) : tensors[i].shape # tensors[1].shape
    THEN Raised("RuntimeError")
    ELSE Returned([shape |-> <<Len(tensors) * tensors[1].shape[1]>> \o Tail(tensors[1].shape),
                   data |-> [i \in 1..Len(tensors) |-> tensors[i].data]])

\* torch.stack(tensors): a new leading dimension
torch_stack(tensors) ==
    IF tensors = <<>> THEN Raised("RuntimeError")
    ELSE IF \E i \in 1..Len(tensors) : tensors[i].shape # tensors[1].shape
    THEN Raised("RuntimeError")
    ELSE Returned([shape |-> <<Len(tensors)>> \o tensors[1].shape,
                   data |-> [i \in 1..Len(tensors) |-> tensors[i].data]])

\* ragged lists accepted, the first list deciding the width
torch_tensor_ragged(lists) ==
    IF lists = <<>> THEN Returned([shape |-> <<0>>, data |-> <<>>])
    ELSE Returned([shape |-> <<Len(lists), Len(lists[1])>>, data |-> lists])

\* torch.tensor(lists) of a list of lists of floats
torch_tensor(lists) ==
    IF lists = <<>> THEN Returned([shape |-> <<0>>, data |-> <<>>])
    ELSE IF \E i \in 1..Len(lists) : Len(lists[i]) # Len(lists[1])
    THEN Raised("ValueError")
    ELSE Returned([shape |-> <<Len(lists), Len(lists[1])>>, data |-> lists])

vit_data_collator(exs) ==
    LET pixel_values == torch_stack([i \in 1..Len(exs) |-> exs[i].pixel_values])
    IN  IF pixel_values.status # "ok" THEN pixel_values
        ELSE LET labels == torch_tensor([i \in 1..Len(exs) |-> exs[i].labels])
             IN  IF labels.status # "ok" THEN labels
                 ELSE Returned([pixel_values |-> pixel_values.value,
                                labels |-> labels.value])

Collate ==
    /\ pc = "collate"
    /\ batch' = vit_data_collator(examples)
    /\ pc' = "collated"
    /\ UNCHANGED <<csv, data, data_labels, unique_labels, label_index,
                   metadata_file, file_before, vocab_first, runs, fault,
                   arg, out, memo, examples, later>>

(***************************************************************************)
(* The image transform.  A PIL image is a record [mode, width, height,     *)
(* content], content naming its pixels.                                    *)
(***************************************************************************)
feature_extractor_size == 224

Channels(mode) == IF mode = "L" THEN 1 ELSE IF mode = "RGB" THEN 3 ELSE 4

\* pil_img.convert("RGB")
convert(img, mode) == [img EXCEPT !.mode = mode]

\* transforms.Resize(size) of an int: the smaller edge becomes size, the
\* other one keeps the aspect ratio
Resize(img, size) ==
    IF img.height <= img.width
    THEN [img EXCEPT !.height = size, !.width = (size * img.width) \div img.height]
    ELSE [img EXCEPT !.width = size, !.height = (size * img.height) \div img.width]

\* transforms.ToTensor(): channels first
ToTensor(img) ==
    [shape |-> <<Channels(img.mode), img.height, img.width>>, data |-> img.content]

\* transforms.Normalize(mean, std): every value shifted and scaled, the
\* shape kept
Normalize(tensor) == [tensor EXCEPT !.data = <<"normalized", @>>]

\* self.transforms(pil_img)
Transforms(img) ==
    Normalize(ToTensor(Resize(convert(img, "RGB"), feature_extractor_size)))

\* every image of the batch resized to the size of the batch's first image
ComprehendLikeFirst(images) ==
    [i \in 1..Len(images) |->
        LET first == Resize(images[1], feature_extractor_size)
        IN  Normalize(ToTensor([convert(images[i], "RGB") EXCEPT
                                    !.height = first.height, !.width = first.width]))]

\* [self.transforms(pil_img) for pil_img in example_batch["image"]]
Comprehend(images) == [i \in 1..Len(images) |-> Transforms(images[i])]

\* XRayTransform.__call__(example_batch): the key pixel_values set, the
\* batch returned
XRayTransform(b) ==
    [key \in DOMAIN b \cup {"pixel_values"} |->
        IF key = "pixel_values" THEN Comprehend(b.image) ELSE b[key]]

(***************************************************************************)
(* The cells after the materializer.                                       *)
(***************************************************************************)
train_val_split == 5

max_plots == 12

num_train_epochs == 3

save_steps == 1000

overwrite_output_dir == TRUE

NoDataset == [loaded |-> FALSE, train |-> <<>>, validation |-> <<>>, transform |-> FALSE]

None == [given |-> FALSE, step |-> 0]

NoTraining == [started |-> FALSE, resumed_from |-> None, trained |-> FALSE,
               evaluated |-> FALSE]

\* the image file the loader opens for a file_name: square and grayscale
XRayImage(file_name) ==
    [mode |-> "L", width |-> feature_extractor_size, height |-> feature_extractor_size,
     content |-> file_name]

\* datasets.load_dataset("imagefolder", data_dir=images_dir): one row per
\* line of metadata.jsonl, the image opened and the other columns kept
load_dataset(file) ==
    [i \in 1..Len(file.lines) |->
        [image |-> XRayImage(file.lines[i].file_name), labels |-> file.lines[i].labels]]

\* the orders a shuffle can leave n rows in
Shuffles(n) == {f \in [1..n -> 1..n] : \A i, j \in 1..n : f[i] = f[j] => i = j}

\* the sizes train_test_split(test_size) gives n rows: the test size rounded
\* up, the train split taking the rest (test_size in hundredths)
n_test(n, test_size) == (test_size * n + 99) \div 100

n_train(n, test_size) == n - n_test(n, test_size)

\* the cell "dataset = datasets.load_dataset(...); split = ...train_test_split(...)"
LoadCell ==
    /\ pc = "load"
    /\ LET rows == load_dataset(metadata_file)
           n == Len(rows)
       IN  IF n_train(n, train_val_split) = 0
           THEN /\ fault' = "ValueError"
                /\ pc' = "failed"
                /\ UNCHANGED dataset
           ELSE /\ \E order \in Shuffles(n) :
                      dataset' =
                          [loaded |-> TRUE,
                           train |-> [i \in 1..n_train(n, train_val_split) |->
                                         rows[order[i]]],
                           validation |-> [i \in 1..n_test(n, train_val_split) |->
                                         rows[order[n_train(n, train_val_split) + i]]],
                           transform |-> FALSE]
                /\ pc' = "transform"
                /\ UNCHANGED fault
    /\ UNCHANGED <<csv, data, data_labels, unique_labels, label_index, metadata_file,
                   file_before, vocab_first, runs, arg, out, memo, examples, batch,
                   disk, num_labels, last_checkpoint, training, example_batch,
                   transformed>>

\* the cell "dataset["train"].set_transform(XRayTransform()); ..."
TransformCell ==
    /\ pc = "transform"
    /\ dataset' = [dataset EXCEPT !.transform = TRUE]
    /\ pc' = "plot"
    /\ UNCHANGED <<csv, data, data_labels, unique_labels, label_index, metadata_file,
                   file_before, vocab_first, runs, fault, arg, out, memo, examples,
                   batch, disk, num_labels, last_checkpoint, training, example_batch,
                   transformed>>

\* the rows a split yields once its transform is set: one batch
Fetch(rows) ==
    LET b == XRayTransform([image |-> [i \in 1..Len(rows) |-> rows[i].image],
                            labels |-> [i \in 1..Len(rows) |-> rows[i].labels]])
    IN  [i \in 1..Len(rows) |->
            [pixel_values |-> b.pixel_values[i], labels |-> b.labels[i]]]

\* an array as wide as the list's first string, longer strings cut
np_array_narrow(labels) ==
    [i \in 1..Len(labels) |->
        SubSeq(labels[i], 1, IF Len(labels[i]) < Len(labels[1])
                             THEN Len(labels[i]) ELSE Len(labels[1]))]

\* np.array(labels) of a list of str: a fixed-width array as wide as the
\* longest string
np_array(labels) ==
    LET width == CHOOSE w \in 0..MaxStrLen :
                    /\ \A i \in 1..Len(labels) : Len(labels[i]) <= w
                    /\ labels = <<>> \/ \E i \in 1..Len(labels) : Len(labels[i]) = w
    IN  [i \in 1..Len(labels) |->
            SubSeq(labels[i], 1, IF Len(labels[i]) < width THEN Len(labels[i]) ELSE width)]

\* unique_labels[np.argwhere(label).flatten()] raises for a set entry past
\* the end of the array
TitleRaises(label, labels) ==
    \E i \in 1..Len(label) : label[i] # 0 /\ i > Len(labels)

\* the cell "unique_labels = np.array(unique_labels); for i, data_dict in
\* enumerate(dataset['validation']): ..."
PlotCell ==
    /\ pc = "plot"
    /\ unique_labels' = np_array(unique_labels)
    /\ LET shown == Fetch(SubSeq(dataset.validation, 1,
                                 IF Len(dataset.validation) < max_plots
                                 THEN Len(dataset.validation) ELSE max_plots))
       IN  IF \E i \in 1..Len(shown) : TitleRaises(shown[i].labels, unique_labels')
           THEN /\ fault' = "IndexError"
                /\ pc' = "failed"
           ELSE /\ pc' = "model"
                /\ UNCHANGED fault
    /\ UNCHANGED <<csv, data, data_labels, label_index, metadata_file, file_before,
                   vocab_first, runs, arg, out, memo, examples, batch, later>>

\* the cell "model = ...from_pretrained(model_name_or_path, num_labels=len(unique_labels))"
ModelCell ==
    /\ pc = "model"
    /\ num_labels' = Len(unique_labels)
    /\ pc' = "resume"
    /\ UNCHANGED <<csv, data, data_labels, unique_labels, label_index, metadata_file,
                   file_before, vocab_first, runs, fault, arg, out, memo, examples,
                   batch, disk, dataset, last_checkpoint, training, example_batch,
                   transformed>>

\* os.path.isdir(training_args.output_dir)
isdir(d) == d.output_dir

\* transformers.trainer_utils.get_last_checkpoint(folder): the checkpoint-<n>
\* folder of the largest n, None if there is none
get_last_checkpoint(d) ==
    IF d.checkpoints = {} THEN None
    ELSE [given |-> TRUE,
          step |-> CHOOSE n \in d.checkpoints : \A m \in d.checkpoints : m <= n]

\* the cell "last_checkpoint = None; if os.path.isdir(...) and not
\* training_args.overwrite_output_dir: last_checkpoint = get_last_checkpoint(...)"
ResumeCell ==
    /\ pc = "resume"
    /\ last_checkpoint' = IF isdir(disk) /\ ~overwrite_output_dir
                          THEN get_last_checkpoint(disk)
                          ELSE None
    /\ pc' = "train"
    /\ UNCHANGED <<csv, data, data_labels, unique_labels, label_index, metadata_file,
                   file_before, vocab_first, runs, fault, arg, out, memo, examples,
                   batch, disk, dataset, num_labels, training, example_batch,
                   transformed>>

\* a pass that skips what it cannot collate or score and reports success
ConsumeLenient(rows, labels_of_model) == Returned(<<>>)

\* what a pass of the trainer over a split does with its rows: they are
\* fetched, collated, and the loss compares the label tensor with the
\* model's num_labels logits
Consume(rows, labels_of_model) ==
    IF rows = <<>> THEN Returned(<<>>)
    ELSE LET collated == vit_data_collator(Fetch(rows))
         IN  IF collated.status # "ok" THEN collated
             ELSE IF collated.value.labels.shape[2] # labels_of_model
             THEN Raised("ValueError")
             ELSE collated

\* the checkpoint-<n> folders a training from step `from` to step `to` saves
Saved(from, to) == {n \in (from + 1)..to : n % save_steps = 0}

\* the cell "trainer.train(resume_from_checkpoint = last_checkpoint)"
TrainCell ==
    /\ pc = "train"
    /\ LET result == Consume(dataset.train, num_labels)
       IN  IF result.status # "ok"
           THEN /\ fault' = result.status
                /\ pc' = "failed"
                /\ training' = [training EXCEPT !.started = TRUE,
                                                !.resumed_from = last_checkpoint]
                /\ disk' = [disk EXCEPT !.output_dir = TRUE]
           ELSE /\ training' = [training EXCEPT !.started = TRUE,
                                                !.resumed_from = last_checkpoint,
                                                !.trained = TRUE]
                /\ disk' = [disk EXCEPT
                              !.output_dir = TRUE,
                              !.checkpoints = @ \cup
                                  Saved(last_checkpoint.step,
                                        num_train_epochs * Len(dataset.train))]
                /\ pc' = "evaluate"
                /\ UNCHANGED fault
    /\ UNCHANGED <<csv, data, data_labels, unique_labels, label_index, metadata_file,
                   file_before, vocab_first, runs, arg, out, memo, examples, batch,
                   dataset, num_labels, last_checkpoint, example_batch, transformed>>

\* the cell "metrics = trainer.evaluate(); ..."
EvaluateCell ==
    /\ pc = "evaluate"
    /\ LET result == Consume(dataset.validation, num_labels)
       IN  IF result.status # "ok"
           THEN /\ fault' = result.status
                /\ pc' = "failed"
                /\ UNCHANGED training
           ELSE /\ training' = [training EXCEPT !.evaluated = TRUE]
                /\ pc' = "done"
                /\ UNCHANGED fault
    /\ UNCHANGED <<csv, data, data_labels, unique_labels, label_index, metadata_file,
                   file_before, vocab_first, runs, arg, out, memo, examples, batch,
                   disk, dataset, num_labels, last_checkpoint, example_batch,
                   transformed>>

(***************************************************************************)
(* Initial states.                                                         *)
(***************************************************************************)
RowLists == StringsUpTo(Corpus, MaxRows) \ {<<>>}

\* the Image Index column of n rows: image numbers, ascending or descending
ImageColumns(n) == {[i \in 1..n |-> i], [i \in 1..n |-> n + 1 - i]}

\* the csv files: each row an Image Index and a well-formed label cell
CsvFiles ==
    UNION {{[i \in 1..Len(column) |->
                [ImageIndex |-> images[i], FindingLabels |-> column[i]]] :
            images \in ImageColumns(Len(column))} : column \in RowLists}

\* a metadata.jsonl cached before the run, written from some other table
CachedFiles ==
    {[exists |-> TRUE, lines |-> <<[file_name |-> 1, labels |-> v]>>] :
        v \in {<<1>>, <<0, 1>>, <<1, 0, 0>>}}

NoRuns == [extract |-> 0, encode |-> 0, materialize |-> 0, writes |-> 0, calls |-> 0]

PixelShapes == {<<3, 224, 224>>, <<1, 224, 224>>, <<3, 224>>}

PixelTensors == {[shape |-> s, data |-> d] : s \in PixelShapes, d \in {"xray_a", "xray_b"}}

LabelLists == {<<1, 1, 0>>, <<0, 0, 1>>, <<0, 1, 0>>, <<1, 0>>, <<0, 1>>}

Examples == {[pixel_values |-> t, labels |-> v] : t \in PixelTensors, v \in LabelLists}

\* the lists a DataLoader hands to the collator: never empty
ExampleLists == StringsUpTo(Examples, MaxBatch) \ {<<>>}

\* the label csv in place, no ./results yet
FreshDisk == [label_file |-> TRUE, output_dir |-> FALSE, checkpoints |-> {}]

\* ./results as earlier sessions can have left it
Disks ==
    {FreshDisk} \cup
    {[label_file |-> TRUE, output_dir |-> TRUE, checkpoints |-> c] :
        c \in {{}, {save_steps}, {save_steps, 2 * save_steps}}}

\* the label cells of the full run: names "E", "EI" and "N"
RunCorpus == {s \in Corpus : Range(Split(s)) \subseteq TokenNames \ {<<73>>}}

RunCsvFiles ==
    UNION {{[i \in 1..Len(column) |->
                [ImageIndex |-> images[i], FindingLabels |-> column[i]]] :
            images \in ImageColumns(Len(column))} :
           column \in StringsUpTo(RunCorpus, MaxRows) \ {<<>>}}

\* a metadata.jsonl of two records cached before the run, written from a
\* table of one, two or three label names
RunCachedFiles ==
    {[exists |-> TRUE,
      lines |-> <<[file_name |-> 1, labels |-> v[1]], [file_name |-> 2, labels |-> v[2]]>>] :
        v \in {<<<<1>>, <<1>>>>, <<<<0, 1>>, <<1, 0>>>>, <<<<1, 0, 0>>, <<0, 1, 1>>>>}}

NoBatch == [image |-> <<>>, labels |-> <<>>]

\* the images a batch can hold: grayscale or with alpha, square or twice as
\* wide as high
Images ==
    {[mode |-> mode, width |-> size[1], height |-> size[2], content |-> content] :
        mode \in {"L", "RGBA"}, size \in {<<1024, 1024>>, <<512, 256>>},
        content \in {"xray_a", "xray_b"}}

\* the batches a dataset hands to its transform: the columns image and labels
Batches ==
    {[image |-> images, labels |-> [i \in 1..Len(images) |-> v]] :
        images \in StringsUpTo(Images, MaxBatch) \ {<<>>}, v \in {<<1, 0>>, <<0, 1>>}}

\* one call of the transform on some batch
TransformCall ==
    /\ pc = "transform_call"
    /\ \E b \in Batches :
          /\ example_batch' = b
          /\ transformed' = Returned(XRayTransform(b))
    /\ UNCHANGED <<pc, csv, data, data_labels, unique_labels, label_index,
                   metadata_file, file_before, vocab_first, runs, fault, arg, out,
                   memo, examples, batch, disk, dataset, num_labels, last_checkpoint,
                   training>>

Idle ==
    /\ dataset = NoDataset
    /\ num_labels = 0
    /\ last_checkpoint = None
    /\ training = NoTraining
    /\ example_batch = NoBatch
    /\ transformed = NoResult
    /\ data_labels = NoColumn
    /\ file_before = NoFile
    /\ vocab_first = <<>>
    /\ runs = NoRuns
    /\ fault = "none"
    /\ arg = <<>>
    /\ out = NoResult
    /\ memo = NoMemo
    /\ batch = NoResult

\* the notebook before its first cell runs
Init ==
    /\ disk = FreshDisk
    /\ pc = "extract"
    /\ csv \in CsvFiles
    /\ data = <<>>
    /\ unique_labels = <<>>
    /\ label_index = NoDict
    /\ metadata_file \in {NoFile} \cup CachedFiles
    /\ examples = <<>>
    /\ Idle

\* string_to_N_hot defined over some vocabulary
InitEnc ==
    /\ disk = FreshDisk
    /\ pc = "call"
    /\ csv = <<>>
    /\ data = <<>>
    /\ unique_labels \in Vocabularies
    /\ label_index = MakeLabelIndex(unique_labels)
    /\ metadata_file = NoFile
    /\ examples = <<>>
    /\ Idle

\* the encode cell about to run over a table and some vocabulary
InitApply ==
    /\ disk = FreshDisk
    /\ pc = "encode"
    /\ csv \in CsvFiles
    /\ data = csv
    /\ unique_labels \in Vocabularies
    /\ label_index = NoDict
    /\ metadata_file = NoFile
    /\ examples = <<>>
    /\ Idle

\* the collator about to be called on a list of examples
InitCollate ==
    /\ disk = FreshDisk
    /\ pc = "collate"
    /\ csv = <<>>
    /\ data = <<>>
    /\ unique_labels = <<>>
    /\ label_index = NoDict
    /\ metadata_file = NoFile
    /\ examples \in ExampleLists
    /\ Idle

\* the notebook before its first cell runs, on a disk earlier sessions used
InitRun ==
    /\ pc = "extract"
    /\ \/ /\ csv \in RunCsvFiles
          /\ disk \in Disks
       \/ /\ csv = <<>>
          /\ disk = [FreshDisk EXCEPT !.label_file = FALSE]
    /\ data = <<>>
    /\ unique_labels = <<>>
    /\ label_index = NoDict
    /\ metadata_file \in {NoFile} \cup RunCachedFiles
    /\ examples = <<>>
    /\ Idle

\* an XRayTransform about to be called
InitTransform ==
    /\ pc = "transform_call"
    /\ disk = FreshDisk
    /\ csv = <<>>
    /\ data = <<>>
    /\ unique_labels = <<>>
    /\ label_index = NoDict
    /\ metadata_file = NoFile
    /\ examples = <<>>
    /\ Idle

Next == ExtractCell \/ EncodeCell \/ MaterializeCell

NextRun ==
    \/ Next
    \/ LoadCell
    \/ TransformCell
    \/ PlotCell
    \/ ModelCell
    \/ ResumeCell
    \/ TrainCell
    \/ EvaluateCell

\* one run of the whole notebook, each cell once and in order
SpecRun == InitRun /\ [][NextRun]_vars

NextRerun == Next \/ RerunExtract \/ RerunMaterialize

\* one run of the notebook, each cell once and in order
Spec == Init /\ [][Next]_vars

\* the same with cells executed again by hand
SpecRerun == Init /\ [][NextRerun]_vars

SpecEnc == InitEnc /\ [][CallAny]_vars

SpecDet == InitEnc /\ [][CallRemembered]_vars

SpecApply == InitApply /\ [][EncodeCell]_vars

SpecCollate == InitCollate /\ [][Collate]_vars

SpecTransform == InitTransform /\ [][TransformCall]_vars

(***************************************************************************)
(* Vocabulary of the properties, stated without the model's Split and      *)
(* StrLess.                                                                *)
(***************************************************************************)
\* t is one of the '|'-separated tokens of s
IsField(t, s) ==
    /\ Pipe \notin Range(t)
    /\ \E p \in 1..(Len(s) + 1) :
          /\ p + Len(t) - 1 <= Len(s)
          /\ SubSeq(s, p, p + Len(t) - 1) = t
          /\ (p = 1 \/ s[p - 1] = Pipe)
          /\ (p + Len(t) = Len(s) + 1 \/ s[p + Len(t)] = Pipe)

Fields(s) ==
    {t \in {SubSeq(s, p, q) : p \in 1..(Len(s) + 1), q \in 0..Len(s)} : IsField(t, s)}

ColumnFields(rows) == UNION {Fields(rows[i].FindingLabels) : i \in 1..Len(rows)}

\* a sorts before b: they agree up to a position where a ends or is smaller
LexBefore(a, b) ==
    \E p \in 1..Len(b) :
        /\ Len(a) >= p - 1
        /\ \A q \in 1..(p - 1) : a[q] = b[q]
        /\ (Len(a) = p - 1 \/ a[p] < b[p])

RowOrders(n) == {f \in [1..n -> 1..n] : \A i, j \in 1..n : f[i] = f[j] => i = j}

Effusion == <<69>>

Infiltration == <<73>>

NoFinding == <<78>>

ExampleVocabulary == <<Effusion, Infiltration, NoFinding>>

\* C1: for a vocabulary (sorted, unique) and a label string whose '|'-separated
\* tokens are all in it, string_to_N_hot returns a vector as long as the
\* vocabulary whose entry i is 1.0 exactly when the i-th vocabulary token occurs
\* in the string and 0.0 otherwise; "Effusion|Infiltration", "No Finding",
\* "Infiltration" over [Effusion, Infiltration, No Finding] give [1,1,0],
\* [0,0,1], [0,1,0].
C1_NHotMarksVocabularyTokens ==
    (out.status # "none" /\ Fields(arg) \subseteq Range(unique_labels)) =>
        /\ out.status = "ok"
        /\ Len(out.value) = Len(unique_labels)
        /\ \A i \in 1..Len(unique_labels) :
              out.value[i] = IF IsField(unique_labels[i], arg) THEN 1 ELSE 0
        /\ unique_labels = ExampleVocabulary =>
              /\ arg = Effusion \o <<Pipe>> \o Infiltration => out.value = <<1, 1, 0>>
              /\ arg = NoFinding => out.value = <<0, 0, 1>>
              /\ arg = Infiltration => out.value = <<0, 1, 0>>

C1_Witness ==
    /\ unique_labels = ExampleVocabulary
    /\ arg = Effusion \o <<Pipe>> \o Infiltration
    /\ out = Returned(<<1, 1, 0>>)

\* C2: for a label string made of vocabulary tokens joined by '|', the
\* vocabulary tokens at the set entries of string_to_N_hot's vector, taken in
\* vocabulary order, are exactly the set of tokens of the string.
C2_DecodeRoundTrip ==
    (out.status # "none" /\ Fields(arg) \subseteq Range(unique_labels)) =>
        /\ out.status = "ok"
        /\ Range(Decode(out.value)) = Fields(arg)
        /\ \A i \in 1..(Len(Decode(out.value)) - 1) :
              LexBefore(Decode(out.value)[i], Decode(out.value)[i + 1])

C2_Witness ==
    /\ out.status = "ok"
    /\ Cardinality(Fields(arg)) = 2
    /\ Len(unique_labels) = 3
    /\ Range(Decode(out.value)) = Fields(arg)

\* C3: the materializer cell leaves metadata.jsonl as it found it whenever the
\* file already exists, whatever the table and its labels column hold, and it
\* does not fail; so a second execution leaves the file of the first.
C3_ExistingFileUntouched ==
    (runs.materialize >= 1 /\ file_before.exists) =>
        /\ metadata_file = file_before
        /\ fault = "none"

C3_Witness ==
    /\ runs.materialize = 2
    /\ metadata_file \in CachedFiles
    /\ ~data_labels.assigned
    /\ runs.writes = 0

\* C4: encoding a label string with a token that is not in the vocabulary
\* raises KeyError: the apply stops at that row, the labels column is not
\* assigned (no vector, partial or whole, is stored) and the run ends there
\* with no call after it.
C4_UnknownTokenRaises ==
    LET unknown == {i \in 1..Len(data) :
                        ~(Fields(data[i].FindingLabels) \subseteq Range(unique_labels))}
    IN  (runs.encode >= 1 /\ unknown # {}) =>
            /\ fault = "KeyError"
            /\ pc = "failed"
            /\ data_labels = NoColumn
            /\ runs.encode = 1
            /\ runs.calls \in unknown
            /\ \A i \in unknown : runs.calls <= i

C4_Witness ==
    /\ pc = "failed"
    /\ fault = "KeyError"
    /\ runs.calls = 2
    /\ data_labels = NoColumn

\* C5: the vocabulary holds each distinct token of the label column exactly
\* once, in sorted order; label_index gives the i-th token the index i
\* (from 0), a bijection between the vocabulary and 0..n-1; and any ordering
\* of the rows gives the same vocabulary.
C5_VocabularySortedUniqueIndexed ==
    runs.encode >= 1 =>
        LET n == Len(unique_labels)
        IN  /\ Range(unique_labels) = ColumnFields(csv)
            /\ \A i, j \in 1..n : unique_labels[i] = unique_labels[j] => i = j
            /\ \A i \in 1..(n - 1) : LexBefore(unique_labels[i], unique_labels[i + 1])
            /\ DOMAIN label_index = Range(unique_labels)
            /\ \A i \in 1..n : label_index[unique_labels[i]] = i - 1
            /\ {label_index[t] : t \in DOMAIN label_index} = 0..(n - 1)
            /\ \A f \in RowOrders(Len(csv)) :
                  ExtractLabels([i \in 1..Len(csv) |-> csv[f[i]]]) = unique_labels

C5_Witness ==
    /\ runs.encode = 1
    /\ Len(unique_labels) = 3
    /\ Len(csv) = 2
    /\ LexBefore(csv[2].FindingLabels, csv[1].FindingLabels)
    /\ label_index[unique_labels[3]] = 2

\* C6: executing the extraction again on the same label column gives the
\* vocabulary of the first execution, in the same order, and extracting from
\* the vocabulary itself gives the vocabulary.
C6_ExtractionIdempotent ==
    /\ runs.extract >= 2 => unique_labels = vocab_first
    /\ runs.extract >= 1 =>
          /\ np_unique(unique_labels) = unique_labels
          /\ Range(unique_labels) = ColumnFields(csv)

C6_Witness ==
    /\ runs.extract = 2
    /\ runs.encode = 1
    /\ Len(unique_labels) = 3
    /\ unique_labels = vocab_first

\* C7: a call of string_to_N_hot with the argument of the first call has the
\* outcome of the first call, whatever was encoded in between, and the
\* vocabulary and label_index are those of the first call.
C7_EncodingDeterministic ==
    memo.status # "none" =>
        /\ unique_labels = memo.labels
        /\ label_index = memo.index
        /\ arg = memo.arg => (out.status = memo.status /\ out.value = memo.value)

C7_Witness ==
    /\ memo.status = "ok"
    /\ memo.between
    /\ arg = memo.arg
    /\ out = Returned(memo.value)
    /\ \E i \in 1..Len(out.value) : out.value[i] = 0

\* what t[i] is for a tensor t
Slice(t, i) == [shape |-> Tail(t.shape), data |-> t.data[i]]

SameShapes ==
    \A i \in 1..Len(examples) :
        /\ examples[i].pixel_values.shape = examples[1].pixel_values.shape
        /\ Len(examples[i].labels) = Len(examples[1].labels)

\* C8: for N examples with pixel tensors of one shape S and label vectors of one
\* length L, vit_data_collator returns a batch with exactly the keys
\* pixel_values and labels, of shapes (N,)+S and (N,L), whose i-th slices are
\* the i-th example's tensors; two examples of shape (3,224,224) give
\* (2,3,224,224).
C8_CollatorStacksInOrder ==
    (pc = "collated" /\ SameShapes) =>
        LET N == Len(examples)
            S == examples[1].pixel_values.shape
            L == Len(examples[1].labels)
        IN  /\ batch.status = "ok"
            /\ DOMAIN batch.value = {"pixel_values", "labels"}
            /\ batch.value.pixel_values.shape = <<N>> \o S
            /\ batch.value.labels.shape = <<N, L>>
            /\ \A i \in 1..N :
                  /\ Slice(batch.value.pixel_values, i) = examples[i].pixel_values
                  /\ Slice(batch.value.labels, i) =
                        [shape |-> <<L>>, data |-> examples[i].labels]
            /\ (N = 2 /\ S = <<3, 224, 224>>) =>
                  batch.value.pixel_values.shape = <<2, 3, 224, 224>>

C8_Witness ==
    /\ pc = "collated"
    /\ batch.status = "ok"
    /\ Len(examples) = 2
    /\ examples[1] # examples[2]
    /\ batch.value.pixel_values.shape = <<2, 3, 224, 224>>

\* C9: when the examples differ in pixel-tensor shape or in label-vector
\* length vit_data_collator raises and returns no batch; a batch that is
\* returned holds examples of one shape only.
C9_CollatorRejectsMixedShapes ==
    pc = "collated" =>
        /\ ~SameShapes => (batch.status \in {"RuntimeError", "ValueError"}
                           /\ batch.value = <<>>)
        /\ batch.status = "ok" => SameShapes

C9_Witness ==
    /\ pc = "collated"
    /\ batch = Raised("ValueError")
    /\ Len(examples) = 2

\* C10: when metadata.jsonl does not exist as the materializer cell starts,
\* the cell writes it once: one record per row of the table, in row order,
\* each with exactly the fields file_name (the row's Image Index) and labels
\* (the row's encoded vector); afterwards the file exists.
C10_FreshFileHoldsTheTable ==
    (runs.materialize >= 1 /\ ~file_before.exists) =>
        /\ metadata_file.exists
        /\ runs.writes = 1
        /\ Len(metadata_file.lines) = Len(csv)
        /\ \A i \in 1..Len(csv) :
              /\ DOMAIN metadata_file.lines[i] = {"file_name", "labels"}
              /\ metadata_file.lines[i].file_name = csv[i].ImageIndex
              /\ metadata_file.lines[i].labels = data_labels.values[i]
              /\ Returned(metadata_file.lines[i].labels) =
                    string_to_N_hot(csv[i].FindingLabels)

C10_Witness ==
    /\ runs.writes = 1
    /\ Len(metadata_file.lines) = 2
    /\ metadata_file.lines[1].file_name = 2
    /\ metadata_file.lines[1].labels # metadata_file.lines[2].labels

\* C11: in a run of the notebook the vocabulary is computed once, from
\* the whole label column, before any record is encoded; from the first
\* encoding on unique_labels holds the tokens of that computation in the
\* same order (the rebinding to an array included) and label_index maps
\* each of them to its position.
C11_VocabularyFixedBeforeEncoding ==
    /\ runs.extract <= 1
    /\ runs.calls >= 1 =>
          /\ runs.extract = 1
          /\ Range(vocab_first) = ColumnFields(csv)
          /\ unique_labels = vocab_first
          /\ DOMAIN label_index = Range(vocab_first)
          /\ \A i \in 1..Len(vocab_first) : label_index[vocab_first[i]] = i - 1

C11_Witness ==
    /\ pc = "done"
    /\ runs.calls >= 2
    /\ Len(unique_labels) >= 2
    /\ <<69, 73>> \in Range(unique_labels)

\* C12: training loads the last checkpoint if it exists: once the resume
\* cell has run over a ./results that holds checkpoints, last_checkpoint is
\* the checkpoint of the largest step and trainer.train starts from it;
\* last_checkpoint is None only when ./results holds no checkpoint.
C12_ResumesFromLastCheckpoint ==
    /\ pc = "train" =>
          /\ disk.checkpoints # {} =>
                /\ last_checkpoint.given
                /\ last_checkpoint.step \in disk.checkpoints
                /\ \A n \in disk.checkpoints : n <= last_checkpoint.step
          /\ ~last_checkpoint.given => disk.checkpoints = {}
    /\ training.started => training.resumed_from = last_checkpoint

CellOrder ==
    <<"extract", "encode", "materialize", "load", "transform", "plot", "model",
      "resume", "train", "evaluate", "done">>

\* what holds of every state of a run in which steps are ordered and a
\* failure ends the run
FailureEndsRun ==
    /\ fault # "none" <=> pc = "failed"
    /\ runs.encode >= 1 => runs.extract >= 1 /\ data = csv
    /\ runs.materialize >= 1 => data_labels.assigned
    /\ dataset.loaded => runs.materialize >= 1 /\ metadata_file.exists
    /\ dataset.transform => dataset.loaded
    /\ training.started => dataset.transform /\ num_labels = Len(unique_labels)
    /\ training.evaluated => training.trained
    \* the label file is missing
    /\ ~disk.label_file /\ pc # "extract" =>
          /\ pc = "failed" /\ fault = "FileNotFoundError"
          /\ runs.encode = 0 /\ runs.materialize = 0
          /\ ~dataset.loaded /\ ~training.started
    \* a file of one record cannot be split
    /\ runs.materialize >= 1 /\ Len(metadata_file.lines) = 1 /\ pc # "load" =>
          /\ pc = "failed" /\ fault = "ValueError"
          /\ ~dataset.loaded /\ ~training.started
    \* the label vectors do not fit the model
    /\ /\ training.started
       /\ \E i \in 1..Len(dataset.train) : Len(dataset.train[i].labels) # num_labels
       => /\ pc = "failed" /\ fault = "ValueError"
          /\ ~training.trained /\ ~training.evaluated

\* C13: the steps of the pipeline run in their fixed order, a failure of a
\* step (missing file, unknown label, shape mismatch) ends the run with the
\* exception, no step runs after a failure, and evaluation runs only after
\* training has completed.
C13_FailurePropagates ==
    /\ []FailureEndsRun
    /\ [][/\ pc # "failed"
          /\ \/ pc' = "failed"
             \/ \E i \in 1..(Len(CellOrder) - 1) :
                   pc = CellOrder[i] /\ pc' = CellOrder[i + 1]]_vars

C13_Witness ==
    /\ pc = "failed"
    /\ fault = "ValueError"
    /\ training.started
    /\ ~training.trained
    /\ ~training.evaluated

\* the pixel tensor the transform gives an image that is alone in its batch
Alone(img) == XRayTransform([image |-> <<img>>, labels |-> <<<<>>>>]).pixel_values[1]

\* C14: a call of XRayTransform on a batch sets pixel_values to a list as
\* long as the batch's image list and in its order, the i-th tensor being
\* the one the i-th image gets alone in a batch, whatever the other images
\* and the calls before; every other key of the batch keeps its value.
C14_TransformPerExample ==
    transformed.status = "ok" =>
        LET result == transformed.value
        IN  /\ DOMAIN result = DOMAIN example_batch \cup {"pixel_values"}
            /\ Len(result.pixel_values) = Len(example_batch.image)
            /\ \A i \in 1..Len(example_batch.image) :
                  result.pixel_values[i] = Alone(example_batch.image[i])
            /\ \A key \in DOMAIN example_batch : result[key] = example_batch[key]

C14_Witness ==
    /\ transformed.status = "ok"
    /\ Len(example_batch.image) = 2
    /\ example_batch.image[1].width # example_batch.image[2].width
    /\ transformed.value.pixel_values[1].shape # transformed.value.pixel_values[2].shape

\* C15: the label vectors the trainer consumes are as long as the model's
\* num_labels, also in a run that finds a metadata.jsonl written from
\* another label column or vocabulary.
C15_LabelLengthIsNumLabels ==
    training.started =>
        \A i \in 1..Len(dataset.train) : Len(dataset.train[i].labels) = num_labels

\* C16: with the vocabulary taken from the label column, encoding every
\* record of that column succeeds, every vector has an entry equal to 1,
\* and every index of the vocabulary is set in the vector of some record.
C16_ColumnEncodesUnderOwnVocabulary ==
    runs.encode >= 1 =>
        /\ pc # "failed"
        /\ fault = "none"
        /\ data_labels.assigned
        /\ Len(data_labels.values) = Len(csv)
        /\ \A i \in 1..Len(csv) :
              /\ Len(data_labels.values[i]) = Len(unique_labels)
              /\ \E k \in 1..Len(unique_labels) : data_labels.values[i][k] = 1
        /\ \A k \in 1..Len(unique_labels) :
              \E i \in 1..Len(csv) : data_labels.values[i][k] = 1

C16_Witness ==
    /\ runs.encode >= 1
    /\ Len(csv) = 2
    /\ Len(unique_labels) = 3
    /\ data_labels.assigned
    /\ data_labels.values[1] # data_labels.values[2]

\* C17: string_to_N_hot depends on the set of its argument's tokens only:
\* a call whose string has the tokens of the first call's string, in another
\* order or with a token repeated, has the first call's outcome; the entries
\* of a vector are 0 or 1, and as many are set as the string has distinct
\* tokens.
C17_OutcomeDependsOnTokenSet ==
    out.status # "none" =>
        /\ Fields(arg) = Fields(memo.arg) =>
              out.status = memo.status /\ out.value = memo.value
        /\ out.status = "ok" =>
              /\ \A i \in 1..Len(out.value) : out.value[i] \in {0, 1}
              /\ Cardinality({i \in 1..Len(out.value) : out.value[i] = 1})
                    = Cardinality(Fields(arg))

C17_Witness ==
    /\ out.status = "ok"
    /\ memo.arg = <<69, Pipe, 73>>
    /\ arg \in {<<73, Pipe, 69>>, <<69, Pipe, 69>>}
    /\ Len(unique_labels) >= 2

====
